---------------------------- MODULE Spec2Model ----------------------------
(***************************************************************************)
(* Model of meshtastic_SMHI.py: the UTF-8 message segmenter truncate_utf8  *)
(* and the polling loop main() with its rebroadcast queue.                 *)
(*                                                                         *)
(* A Python str is modelled as a sequence of Unicode code points (natural  *)
(* numbers); its UTF-8 encoding length is computed with the UTF-8 length   *)
(* rule, so that characters and bytes are different measures.              *)
(***************************************************************************)
EXTENDS Integers, Sequences, FiniteSets, TLC

(***************************************************************************)
(* Bounds of the model.                                                    *)
(***************************************************************************)
MaxBytes == 13      \* largest max_bytes tried on truncate_utf8 (with MaxBytes - 1)
MaxMessages == 2    \* MAX_MESSAGES ranges over 1..MaxMessages
MaxWords == 4       \* input texts are made of 1..MaxWords words
MaxCycle == 6       \* polling cycles modelled
MaxRepeat == 2      \* REPEAT_NUM_MSG ranges over -1..MaxRepeat
MaxSpacing == 3     \* REPEAT_NUM_CYCL ranges over -1..MaxSpacing

(***************************************************************************)
(* Code points used by the program's literals.                             *)
(***************************************************************************)
SP == 32            \* " "
SLASH == 47         \* "/"
DIGIT0 == 48        \* "0"
DEFAULT_MAX_BYTES == 200
DEFAULT_MAX_MESSAGES == 2
EXTRA_SUFFIX == 6

\* " [...]"
Marker == <<32, 91, 46, 46, 46, 93>>

\* whitespace removed by str.strip(): the ASCII whitespace and NEL, NBSP
Whitespace == {9, 10, 11, 12, 13, 28, 29, 30, 31, 32, 133, 160}

VARIABLES
    pc,               \* position of the process
    MAX_MESSAGES,     \* --max-messages
    s,                \* truncate_utf8: argument s
    max_bytes,        \* truncate_utf8: argument max_bytes
    result,           \* truncate_utf8: returned list of chunks
    DRY_RUN,          \* --dry-run
    REPEAT_NUM_MSG,   \* --repeat-number
    REPEAT_NUM_CYCL,  \* --repeat-cycles
    first,            \* main: first
    message_queue,    \* main: message_queue, a list of lists of messages
    known_alerts,     \* main: known_alerts
    queued_messages,  \* main: queued_messages, the slot popped in this cycle
    current_alerts,   \* main: current_alerts
    new_alerts,       \* main: the keys of new_alerts not yet iterated over
    id,               \* main: id, the key being announced (0: none)
    new_messages,     \* main: new_messages
    idx,              \* main: position of a "for message in ..." loop
    cycle,            \* history: number of the polling cycle, from 1
    sent,             \* history: messages passed to call_meshtastic in this cycle
    announced,        \* history: keys announced in this cycle, in order
    failed_at,        \* history: position in sent of the first failed call (0: none)
    fetched,          \* history: outcome and keys of this cycle's request to the feed
    prev_alerts,      \* history: keys fetched in the previous cycle
    seen_before,      \* history: keys fetched in any earlier cycle
    sched_log,        \* history: <<cycle, key>> of the alerts put in the queue
    advanced,         \* history: number of pops of the queue in this cycle
    checked,          \* history: outcome of the check of the radio at start-up
    dispatched        \* history: messages of new alerts passed to call_meshtastic

cfgvars == <<MAX_MESSAGES, DRY_RUN, REPEAT_NUM_MSG, REPEAT_NUM_CYCL>>
segvars == <<s, max_bytes, result>>
mainvars == <<first, message_queue, known_alerts, queued_messages, current_alerts,
              new_alerts, id, new_messages, idx>>
histvars == <<cycle, sent, announced, failed_at, fetched, prev_alerts, seen_before,
              sched_log>>

auxvars == <<advanced, checked, dispatched>>

vars == <<pc, cfgvars, segvars, mainvars, histvars, auxvars>>

(***************************************************************************)
(* str helpers                                                             *)
(***************************************************************************)
\* number of bytes of one code point in UTF-8
Utf8Len(c) == IF c < 128 THEN 1 ELSE IF c < 2048 THEN 2 ELSE IF c < 65536 THEN 3 ELSE 4

\* bytes of the code points lo..hi of str (halving keeps the recursion shallow)
RECURSIVE ByteLenRange(_, _, _)
ByteLenRange(str, lo, hi) ==
    IF lo > hi THEN 0
    ELSE IF lo = hi THEN Utf8Len(str[lo])
    ELSE LET mid == (lo + hi) \div 2
         IN  ByteLenRange(str, lo, mid) + ByteLenRange(str, mid + 1, hi)

\* len(str.encode('utf-8'))
ByteLen(str) == ByteLenRange(str, 1, Len(str))

\* the position of the first space of str at or after i, Len(str) + 1 if none
NextSpace(str, i) ==
    LET at == {j \in i..Len(str) : str[j] = SP}
    IN  IF at = {} THEN Len(str) + 1
        ELSE CHOOSE j \in at : \A k \in at : j <= k

\* str.split(" "): the pieces between single spaces (empty pieces are kept)
RECURSIVE SplitFrom(_, _)
SplitFrom(str, i) ==
    LET j == NextSpace(str, i)
    IN  IF j > Len(str) THEN <<SubSeq(str, i, Len(str))>>
        ELSE <<SubSeq(str, i, j - 1)>> \o SplitFrom(str, j + 1)

Split(str) == SplitFrom(str, 1)

\* " ".join(words)
RECURSIVE Join(_)
Join(words) ==
    IF words = <<>> THEN <<>>
    ELSE IF Len(words) = 1 THEN words[1]
    ELSE words[1] \o <<SP>> \o Join(Tail(words))

\* str.strip(): from the first to the last code point that is no whitespace
Strip(str) ==
    LET keep == {i \in 1..Len(str) : str[i] \notin Whitespace}
    IN  IF keep = {} THEN <<>>
        ELSE SubSeq(str, CHOOSE i \in keep : \A k \in keep : i <= k,
                         CHOOSE i \in keep : \A k \in keep : i >= k)

\* f"{n}" for a natural number n
RECURSIVE Dec(_)
Dec(n) == IF n < 10 THEN <<DIGIT0 + n>> ELSE Append(Dec(n \div 10), DIGIT0 + (n % 10))

\* f" {i}/{n}"
Suffix(i, n) == <<SP>> \o Dec(i) \o <<SLASH>> \o Dec(n)

(***************************************************************************)
(* truncate_utf8                                                           *)
(***************************************************************************)
\* mutant of FitsAsIs: the comparison is strict
FitsAsIsStrict(str, maxb) == ByteLen(str) < maxb

\* line 15: the text is returned as it is
FitsAsIs(str, maxb) == ByteLen(str) <= maxb

\* line 19: worst case suffix length (maxm: the global MAX_MESSAGES)
suffix_length(maxm) == ByteLen(Suffix(maxm, maxm))

\* mutant of TooBig: no word is skipped
TooBigNever(word, maxb) == FALSE

\* line 32: a word that is skipped
TooBig(word, maxb) == ByteLen(word) > maxb

\* line 42: the word fits in the current chunk
FitsChunk(current_size, extra, maxb, maxm, extra_suffix_length) ==
    current_size + extra <= maxb - suffix_length(maxm) - extra_suffix_length

\* lines 51-57: the chunk limit is reached: mark the last chunk and stop
Truncate(st, chunks1) ==
    [st EXCEPT !.chunks = [chunks1 EXCEPT ![Len(chunks1)] = @ \o Marker],
               !.current_words = <<>>,
               !.current_size = 0,
               !.broke = TRUE]

\* mutant of NewChunk: the new chunk starts empty, the current word is lost
NewChunkLosesWord(st, chunks1, word) ==
    [st EXCEPT !.chunks = chunks1,
               !.current_words = <<>>,
               !.current_size = 0]

\* lines 59-61: start a new chunk with the current word
NewChunk(st, chunks1, word) ==
    [st EXCEPT !.chunks = chunks1,
               !.current_words = <<word>>,
               !.current_size = ByteLen(word)]

\* lines 28-61: one iteration of the loop over the words
LoopBody(st0, word, maxb, maxm) ==
    IF st0.broke \/ TooBig(word, maxb) THEN st0
    ELSE LET extra == 1 + ByteLen(word)
             st == IF Len(st0.chunks) = maxm - 1
                   THEN [st0 EXCEPT !.extra_suffix_length = EXTRA_SUFFIX]
                   ELSE st0
         IN  IF FitsChunk(st.current_size, extra, maxb, maxm, st.extra_suffix_length)
             THEN [st EXCEPT !.current_words = Append(@, word),
                             !.current_size = @ + extra]
             ELSE LET chunks1 == Append(st.chunks, Join(st.current_words))
                  IN  IF Len(chunks1) = maxm
                      THEN Truncate(st, chunks1)
                      ELSE NewChunk(st, chunks1, word)

\* lines 20-25: the state before the loop
LoopInit ==
    [chunks |-> <<>>, current_words |-> <<>>, current_size |-> 0,
     extra_suffix_length |-> 0, broke |-> FALSE]

\* lines 27-61: the loop
RECURSIVE Loop(_, _, _, _, _)
Loop(st, words, i, maxb, maxm) ==
    IF i > Len(words) THEN st
    ELSE Loop(LoopBody(st, words[i], maxb, maxm), words, i + 1, maxb, maxm)

\* lines 63-65: finalize any remaining words in the last chunk
Finalize(st) ==
    IF st.current_words # <<>>
    THEN Append(st.chunks, Join(st.current_words))
    ELSE st.chunks

\* mutant of AddSuffixes: the position is counted from 0
AddSuffixesFromZero(chunks) ==
    [i \in 1..Len(chunks) |-> Strip(chunks[i]) \o Suffix(i - 1, Len(chunks))]

\* lines 67-68: strip every chunk and append its positional suffix
AddSuffixes(chunks) ==
    [i \in 1..Len(chunks) |-> Strip(chunks[i]) \o Suffix(i, Len(chunks))]

\* lines 12-70: truncate_utf8(s, max_bytes), which reads the global
\* MAX_MESSAGES (maxm)
truncate_utf8(str, maxb, maxm) ==
    IF FitsAsIs(str, maxb) THEN <<str>>
    ELSE AddSuffixes(Finalize(Loop(LoopInit, Split(str), 1, maxb, maxm)))

(***************************************************************************)
(* Inputs of truncate_utf8                                                 *)
(***************************************************************************)
Rep(c, n) == [i \in 1..n |-> c]

\* "", "a", "ö", "aaa", a word just below the budget, a word above it
WordPool ==
    { <<>>, <<97>>, <<246>>, <<97, 97, 97>>,
      Rep(99, MaxBytes - 4), Rep(98, MaxBytes + 1) }

WordLists == UNION { [1..n -> WordPool] : n \in 1..MaxWords }

\* the state of main() before it runs
MainIdle ==
    /\ first = FALSE
    /\ message_queue = <<>>
    /\ known_alerts = {}
    /\ queued_messages = <<>>
    /\ current_alerts = {}
    /\ new_alerts = {}
    /\ id = 0
    /\ new_messages = <<>>
    /\ idx = 0
    /\ cycle = 0
    /\ sent = <<>>
    /\ announced = <<>>
    /\ failed_at = 0
    /\ fetched = [outcome |-> "none", ids |-> {}]
    /\ prev_alerts = {}
    /\ seen_before = {}
    /\ sched_log = <<>>
    /\ advanced = 0
    /\ checked = "none"
    /\ dispatched = {}

InitSeg ==
    /\ pc = "seg_call"
    /\ MAX_MESSAGES \in 1..MaxMessages
    /\ max_bytes \in (MaxBytes - 1)..MaxBytes
    /\ \E ws \in WordLists : s = Join(ws)
    /\ result = <<>>
    /\ DRY_RUN = FALSE
    /\ REPEAT_NUM_MSG = 0
    /\ REPEAT_NUM_CYCL = 2
    /\ MainIdle

Call ==
    /\ pc = "seg_call"
    /\ result' = truncate_utf8(s, max_bytes, MAX_MESSAGES)
    /\ pc' = "seg_done"
    /\ UNCHANGED <<cfgvars, s, max_bytes, mainvars, histvars, auxvars>>

NextSeg == Call

SpecSeg == InitSeg /\ [][NextSeg]_vars


(***************************************************************************)
(* The feed, the alert messages and the transport                          *)
(***************************************************************************)
\* the alert keys (combined_id) of the feed: two alerts, each of which can
\* be in the feed or not at every poll
Keys == {1, 2}

\* "SMHI:"
SMHI == <<83, 77, 72, 73, 58>>

\* line 175: the message of the alert with key k.  Alerts with an odd key
\* have a short description (the message fits 200 bytes), alerts with an
\* even key a long one (256 bytes and more).
Render(k) ==
    IF k % 2 = 1
    THEN Join(<<SMHI, Dec(k), Rep(118, 7)>>)
    ELSE Join(<<SMHI, Dec(k), Rep(98, 97), Rep(99, 99), Rep(100, 50)>>)

\* lines 175-178: the messages of every alert of the feed for the values of
\* MAX_MESSAGES the process is started with, computed once
MessageTable ==
    [maxm \in {1, DEFAULT_MAX_MESSAGES} |->
        [k \in Keys |-> truncate_utf8(Render(k), DEFAULT_MAX_BYTES, maxm)]]

\* lines 175-178: message = f"SMHI: ..."; new_messages = truncate_utf8(message)
MessagesOf(k) == MessageTable[MAX_MESSAGES][k]

\* what one run of the meshtastic command can do
CallOutcomes == IF DRY_RUN THEN {"dry_run"} ELSE {"stdout", "silent", "error"}

\* mutant of call_meshtastic: CalledProcessError is not caught
call_meshtastic_uncaught(outcome) ==
    [propagates |-> outcome = "error",
     failed |-> outcome = "error",
     truthy |-> outcome \in {"dry_run", "stdout"}]

\* lines 112-131: call_meshtastic.  "error" is subprocess.CalledProcessError,
\* "silent" a successful run that prints nothing.  The returned value is
\* stdout or False, of which the program reads only the truth value;
\* propagates: an exception leaves the function (the except clause of line
\* 129 catches the only one the command raises); failed: the message was
\* not sent.
call_meshtastic(outcome) ==
    [propagates |-> FALSE,
     failed |-> outcome = "error",
     truthy |-> outcome \in {"dry_run", "stdout"}]

\* what one request to the feed can do
FetchOutcomes == {"ok", "request_error", "json_error"}

\* lines 72-109: fetch_alerts returns the pair (alert_ids, filtered_alerts),
\* or, on a requests.RequestException, an empty set; response.json() raises
\* on a body that is not JSON.  A returned value is modelled by the tuple
\* of the items it yields when unpacked.
fetch_alerts(outcome, ids) ==
    CASE outcome = "ok" -> [raised |-> FALSE, value |-> <<ids, ids>>]
      [] outcome = "request_error" -> [raised |-> FALSE, value |-> <<>>]
      [] outcome = "json_error" -> [raised |-> TRUE, value |-> <<>>]

\* lines 151 and 184
Enabled == REPEAT_NUM_MSG > 0 /\ REPEAT_NUM_CYCL > 0

\* mutant of RangeLen: one slot less than the product
RangeLenShort(n) == IF n > 1 THEN n - 1 ELSE 0

\* line 147: range(n) has n items, none when n <= 0
RangeLen(n) == IF n > 0 THEN n ELSE 0

(***************************************************************************)
(* The process: start-up check and main()                                  *)
(***************************************************************************)
Init ==
    /\ pc = "startup"
    /\ DRY_RUN \in BOOLEAN
    /\ MAX_MESSAGES \in {1, DEFAULT_MAX_MESSAGES}
    /\ REPEAT_NUM_MSG \in -1..MaxRepeat
    /\ REPEAT_NUM_CYCL \in -1..MaxSpacing
    /\ s = <<>>
    /\ max_bytes = DEFAULT_MAX_BYTES
    /\ result = <<>>
    /\ MainIdle

\* mutant of LoopTop: the iteration starts at the request to the feed
LoopTopFetch == "fetch"

\* lines 150-151: the first statement of the body of "while True" is the
\* block of the queue
LoopTop == "drain"

\* mutant of FirstInit: no first cycle is singled out
FirstInitFalse == FALSE

\* line 143
FirstInit == ~DRY_RUN

\* lines 143-148: the locals of main() before the loop
EnterMain ==
    /\ first' = FirstInit
    /\ message_queue' = [i \in 1..RangeLen(REPEAT_NUM_CYCL * REPEAT_NUM_MSG) |-> <<>>]
    /\ known_alerts' = {}
    /\ cycle' = 1
    /\ pc' = LoopTop
    /\ UNCHANGED <<queued_messages, current_alerts, new_alerts, id, new_messages, idx,
                   sent, announced, failed_at, fetched, prev_alerts, seen_before,
                   sched_log, advanced, dispatched>>

\* lines 258-262: the check of the radio, then main()
Startup ==
    /\ pc = "startup"
    /\ IF DRY_RUN
       THEN /\ checked' = "skipped"
            /\ EnterMain
       ELSE \E outcome \in CallOutcomes :
               /\ checked' = outcome
               /\ IF ~call_meshtastic(outcome).truthy
                  THEN /\ pc' = "aborted"
                       /\ UNCHANGED <<mainvars, histvars, advanced, dispatched>>
                  ELSE EnterMain
    /\ UNCHANGED <<cfgvars, segvars>>

\* lines 151-155: pop the first slot of the queue
Drain ==
    /\ pc = "drain"
    /\ IF Enabled
       THEN /\ queued_messages' = Head(message_queue)
            /\ message_queue' = Tail(message_queue)
            /\ idx' = 1
            /\ advanced' = advanced + 1
            /\ pc' = "send_queued"
       ELSE /\ pc' = "fetch"
            /\ UNCHANGED <<queued_messages, message_queue, idx, advanced>>
    /\ UNCHANGED <<cfgvars, segvars, first, known_alerts, current_alerts, new_alerts,
                   id, new_messages, histvars, checked, dispatched>>

\* the effect of one call of call_meshtastic in a loop over messages: the
\* returned value is dropped; an exception that leaves the call ends main()
Dispatched(ret) ==
    /\ failed_at' = IF failed_at = 0 /\ ret.failed THEN Len(sent) + 1 ELSE failed_at
    /\ pc' = IF ret.propagates THEN "crashed" ELSE pc

\* lines 157-158: send one queued message
SendQueued ==
    /\ pc = "send_queued"
    /\ idx <= Len(queued_messages)
    /\ \E outcome \in CallOutcomes : Dispatched(call_meshtastic(outcome))
    /\ sent' = Append(sent, queued_messages[idx])
    /\ idx' = idx + 1
    /\ UNCHANGED <<cfgvars, segvars, first, message_queue, known_alerts,
                   queued_messages, current_alerts, new_alerts, id, new_messages,
                   cycle, announced, fetched, prev_alerts, seen_before, sched_log,
                   auxvars>>

\* line 160: create a new empty queue slot
AppendSlot ==
    /\ pc = "send_queued"
    /\ idx > Len(queued_messages)
    /\ message_queue' = Append(message_queue, <<>>)
    /\ pc' = "fetch"
    /\ UNCHANGED <<cfgvars, segvars, first, known_alerts, queued_messages,
                   current_alerts, new_alerts, id, new_messages, idx, histvars,
                   auxvars>>

\* mutant of NewAlerts: every alert of the feed counts as new
NewAlertsAll(ids) == ids

\* line 166: what is new compared to known_alerts
NewAlerts(ids) == ids \ known_alerts

\* lines 163-170: fetch the alerts and find the new ones.  Unpacking the
\* returned value into (current_alerts, data) raises ValueError unless it
\* yields exactly two items.
Fetch ==
    /\ pc = "fetch"
    /\ \E outcome \in FetchOutcomes, ids \in SUBSET Keys :
          LET ret == fetch_alerts(outcome, ids)
          IN  IF ret.raised \/ Len(ret.value) # 2
              THEN /\ pc' = "crashed"
                   /\ fetched' = [outcome |-> outcome, ids |-> {}]
                   /\ UNCHANGED <<current_alerts, new_alerts>>
              ELSE /\ current_alerts' = ret.value[1]
                   /\ new_alerts' = IF first THEN {} ELSE NewAlerts(ret.value[1])
                   /\ fetched' = [outcome |-> outcome, ids |-> ids]
                   /\ pc' = "announce"
    /\ UNCHANGED <<cfgvars, segvars, first, message_queue, known_alerts,
                   queued_messages, id, new_messages, idx,
                   cycle, sent, announced, failed_at, prev_alerts, seen_before,
                   sched_log, auxvars>>

\* lines 172-179: take the next new alert, build and split its message
Announce ==
    /\ pc = "announce"
    /\ \E k \in new_alerts :
          /\ id' = k
          /\ new_alerts' = new_alerts \ {k}
          /\ new_messages' = MessagesOf(k)
          /\ announced' = Append(announced, k)
    /\ idx' = 1
    /\ pc' = "send_new"
    /\ UNCHANGED <<cfgvars, segvars, first, message_queue, known_alerts,
                   queued_messages, current_alerts,
                   cycle, sent, failed_at, fetched, prev_alerts, seen_before,
                   sched_log, auxvars>>

\* lines 181-182: send one message of the new alert
SendNew ==
    /\ pc = "send_new"
    /\ idx <= Len(new_messages)
    /\ \E outcome \in CallOutcomes : Dispatched(call_meshtastic(outcome))
    /\ sent' = Append(sent, new_messages[idx])
    /\ dispatched' = dispatched \cup {new_messages[idx]}
    /\ idx' = idx + 1
    /\ UNCHANGED <<cfgvars, segvars, first, message_queue, known_alerts,
                   queued_messages, current_alerts, new_alerts, id, new_messages,
                   cycle, announced, fetched, prev_alerts, seen_before, sched_log,
                   advanced, checked>>

\* mutant of Scheduled: the message is added as it was before it was split
ScheduledUnsplit(queue, messages) ==
    [j \in 1..Len(queue) |->
        IF \E i \in 0..(REPEAT_NUM_MSG - 1) : j = (i + 1) * REPEAT_NUM_CYCL
        THEN Append(queue[j], Render(id))
        ELSE queue[j]]

\* mutant of Scheduled: nothing is added when a call has failed in this cycle
ScheduledIfSent(queue, messages) ==
    [j \in 1..Len(queue) |->
        IF /\ failed_at = 0
           /\ \E i \in 0..(REPEAT_NUM_MSG - 1) : j = (i + 1) * REPEAT_NUM_CYCL
        THEN queue[j] \o messages
        ELSE queue[j]]

\* mutant of Scheduled: the messages are put at the front of the slot
ScheduledAtFront(queue, messages) ==
    [j \in 1..Len(queue) |->
        IF \E i \in 0..(REPEAT_NUM_MSG - 1) : j = (i + 1) * REPEAT_NUM_CYCL
        THEN messages \o queue[j]
        ELSE queue[j]]

\* mutant of Scheduled: the slots are counted from 1 instead of 0
ScheduledOneOff(queue, messages) ==
    [j \in 1..Len(queue) |->
        IF \E i \in 0..(REPEAT_NUM_MSG - 1) : j = (i + 1) * REPEAT_NUM_CYCL - 1
        THEN queue[j] \o messages
        ELSE queue[j]]

\* lines 186-187: the queue after new_messages is added to the slots
\* (i+1)*REPEAT_NUM_CYCL-1, i in range(REPEAT_NUM_MSG) (counted from 0)
Scheduled(queue, messages) ==
    [j \in 1..Len(queue) |->
        IF \E i \in 0..(REPEAT_NUM_MSG - 1) : j = (i + 1) * REPEAT_NUM_CYCL
        THEN queue[j] \o messages
        ELSE queue[j]]

\* line 187: the list indexes (i+1)*REPEAT_NUM_CYCL-1 of the slots that are
\* extended, i in range(REPEAT_NUM_MSG)
SlotIndexes == {(i + 1) * REPEAT_NUM_CYCL - 1 : i \in 0..(REPEAT_NUM_MSG - 1)}

\* line 187: message_queue[j] of a list raises IndexError unless
\* -len <= j < len
InList(j, queue) == -Len(queue) <= j /\ j < Len(queue)

\* lines 184-188: add the new messages to the queue
Schedule ==
    /\ pc = "send_new"
    /\ idx > Len(new_messages)
    /\ IF Enabled
       THEN IF \A j \in SlotIndexes : InList(j, message_queue)
            THEN /\ message_queue' = Scheduled(message_queue, new_messages)
                 /\ sched_log' = Append(sched_log, <<cycle, id>>)
                 /\ pc' = "announce"
            ELSE /\ pc' = "crashed"
                 /\ UNCHANGED <<message_queue, sched_log>>
       ELSE /\ pc' = "announce"
            /\ UNCHANGED <<message_queue, sched_log>>
    /\ UNCHANGED <<cfgvars, segvars, first, known_alerts, queued_messages,
                   current_alerts, new_alerts, id, new_messages, idx,
                   cycle, sent, announced, failed_at, fetched, prev_alerts,
                   seen_before, auxvars>>

\* mutant of UpdatedKnown: the new keys are merged into the known ones
UpdatedKnownMerged == known_alerts \cup current_alerts

\* line 192: update the known alerts
UpdatedKnown == current_alerts

\* lines 191-195: the end of the iteration
Update ==
    /\ pc = "announce"
    /\ new_alerts = {}
    /\ known_alerts' = UpdatedKnown
    /\ first' = FALSE
    /\ pc' = "sleep"
    /\ UNCHANGED <<cfgvars, segvars, message_queue, queued_messages, current_alerts,
                   new_alerts, id, new_messages, idx, histvars, auxvars>>

\* the entries of the log that can still be due in cycle c or later
Pending(log, c) ==
    SelectSeq(log, LAMBDA e : e[1] + REPEAT_NUM_MSG * REPEAT_NUM_CYCL >= c)

\* line 200: sleep, then the next iteration
Sleep ==
    /\ pc = "sleep"
    /\ cycle < MaxCycle
    /\ cycle' = cycle + 1
    /\ sent' = <<>>
    /\ announced' = <<>>
    /\ failed_at' = 0
    /\ fetched' = [outcome |-> "none", ids |-> {}]
    /\ prev_alerts' = fetched.ids
    /\ seen_before' = seen_before \cup fetched.ids
    /\ sched_log' = Pending(sched_log, cycle + 1)
    /\ advanced' = 0
    /\ pc' = LoopTop
    /\ UNCHANGED <<cfgvars, segvars, mainvars, checked, dispatched>>

Next ==
    \/ Startup
    \/ Drain
    \/ SendQueued
    \/ AppendSlot
    \/ Fetch
    \/ Announce
    \/ SendNew
    \/ Schedule
    \/ Update
    \/ Sleep

Spec == Init /\ [][Next]_vars

(***************************************************************************)
(* Reading a result of truncate_utf8 back: positional suffix, truncation   *)
(* marker, words.                                                          *)
(***************************************************************************)
EndsWith(str, suf) ==
    /\ Len(suf) <= Len(str)
    /\ SubSeq(str, Len(str) - Len(suf) + 1, Len(str)) = suf

DropLast(str, n) == SubSeq(str, 1, Len(str) - n)

IsPrefix(a, b) == Len(a) <= Len(b) /\ SubSeq(b, 1, Len(a)) = a

\* "[...]", the marker without its separating space
MarkerText == Tail(Marker)

\* the whitespace-separated words of a text
RECURSIVE WordsFrom(_, _, _)
WordsFrom(str, i, cur) ==
    IF i > Len(str) THEN (IF cur = <<>> THEN <<>> ELSE <<cur>>)
    ELSE IF str[i] \in Whitespace
         THEN (IF cur = <<>> THEN <<>> ELSE <<cur>>) \o WordsFrom(str, i + 1, <<>>)
         ELSE WordsFrom(str, i + 1, Append(cur, str[i]))

WordsOf(str) == WordsFrom(str, 1, <<>>)

\* chunk i of a result without its positional suffix " i/N"
ChunkText(chunks, i) ==
    IF EndsWith(chunks[i], Suffix(i, Len(chunks)))
    THEN DropLast(chunks[i], Len(Suffix(i, Len(chunks))))
    ELSE chunks[i]

CarriesMarker(chunks, i) == EndsWith(ChunkText(chunks, i), MarkerText)

\* the words of chunk i, positional suffix and truncation marker removed
ChunkWords(chunks, i) ==
    IF CarriesMarker(chunks, i)
    THEN WordsOf(DropLast(ChunkText(chunks, i), Len(MarkerText)))
    ELSE WordsOf(ChunkText(chunks, i))

RECURSIVE OutWordsFrom(_, _)
OutWordsFrom(chunks, i) ==
    IF i > Len(chunks) THEN <<>>
    ELSE ChunkWords(chunks, i) \o OutWordsFrom(chunks, i + 1)

\* the words of all chunks, in chunk order
OutWords(chunks) == OutWordsFrom(chunks, 1)

\* the words of the input that are not longer than the budget
KeptWords(str, maxb) == SelectSeq(WordsOf(str), LAMBDA w : ByteLen(w) <= maxb)

\* truncate_utf8 has returned and its segmentation logic ran
Segmented == pc = "seg_done" /\ ByteLen(s) > max_bytes

\* truncate_utf8 has returned the text as it was
Unsegmented == pc = "seg_done" /\ ByteLen(s) <= max_bytes

(***************************************************************************)
(* C1: at most MAX_MESSAGES chunks are returned and every chunk, with its  *)
(* positional suffix and truncation marker, is at most max_bytes bytes     *)
(* long.  The code violates the byte bound: a word longer than the space   *)
(* left after the reserved suffix, but not longer than max_bytes, is put   *)
(* in a chunk of its own without any check.                                *)
(***************************************************************************)
C1_ChunksWithinBudget ==
    pc = "seg_done" =>
        /\ Len(result) <= MAX_MESSAGES
        /\ \A i \in 1..Len(result) : ByteLen(result[i]) <= max_bytes

(***************************************************************************)
(* C4 as stated: a text within the budget comes back as one chunk equal to *)
(* the text with leading and trailing whitespace removed.                  *)
(***************************************************************************)
C4_FitReturnsTrimmed == Unsegmented => result = <<Strip(s)>>

(***************************************************************************)
(* C4 amended: a text within the budget comes back as exactly one chunk,   *)
(* equal to the text as it was given (nothing trimmed, no positional       *)
(* suffix added).                                                          *)
(***************************************************************************)
C4_FitReturnsInput == Unsegmented => result = <<s>>

C4_Witness == Unsegmented /\ s # Strip(s) /\ s # <<>> /\ result = <<s>>

(***************************************************************************)
(* C9: when words are discarded because the chunk limit was reached, the   *)
(* last chunk's text ends with " [...]" and the words returned are the     *)
(* words before the discarded ones; when none is discarded for that        *)
(* reason, no chunk carries the marker.  The code violates both halves: a  *)
(* last chunk without words keeps only "[...]", and an empty piece between *)
(* two spaces that does not fit triggers the marker although no word is    *)
(* lost.                                                                   *)
(***************************************************************************)
C9_MarkerIffDiscarded ==
    Segmented =>
        LET out == OutWords(result)
            kept == KeptWords(s, max_bytes)
            discarded == Len(out) < Len(kept)
        IN  /\ IsPrefix(out, kept)
            /\ discarded =>
                  /\ result # <<>>
                  /\ EndsWith(ChunkText(result, Len(result)), Marker)
            /\ ~discarded =>
                  \A i \in 1..Len(result) : ~CarriesMarker(result, i)

(***************************************************************************)
(* C10 as stated: the words of the chunks form a prefix of the input's     *)
(* word sequence.                                                          *)
(***************************************************************************)
C10_PrefixOfInput == Segmented => IsPrefix(OutWords(result), WordsOf(s))

(***************************************************************************)
(* C10 amended: the words of the chunks form a prefix of the input's word  *)
(* sequence from which the words longer than max_bytes bytes have been     *)
(* removed: same words, same order, none repeated, and none skipped other  *)
(* than those over-long words.                                             *)
(***************************************************************************)
C10_PrefixOfKept == Segmented => IsPrefix(OutWords(result), KeptWords(s, max_bytes))

C10_Witness ==
    /\ Segmented
    /\ Len(OutWords(result)) >= 2
    /\ IsPrefix(OutWords(result), KeptWords(s, max_bytes))
    /\ ~IsPrefix(OutWords(result), WordsOf(s))


(***************************************************************************)
(* Reading the histories of the polling loop                               *)
(***************************************************************************)
\* the messages of the alerts with the keys ks, in that order
RECURSIVE MessagesOfAll(_)
MessagesOfAll(ks) ==
    IF ks = <<>> THEN <<>> ELSE MessagesOf(Head(ks)) \o MessagesOfAll(Tail(ks))

Range(f) == {f[i] : i \in DOMAIN f}

\* the keys of the alerts put in the queue in an earlier cycle c with
\* d = c + k * REPEAT_NUM_CYCL for some k in 1..REPEAT_NUM_MSG, oldest first
DueIn(d) ==
    LET due == SelectSeq(sched_log, LAMBDA e :
                   \E k \in 1..REPEAT_NUM_MSG : d = e[1] + k * REPEAT_NUM_CYCL)
    IN  [i \in 1..Len(due) |-> due[i][2]]

\* the messages passed to call_meshtastic in this cycle after the queued ones
SentNew ==
    IF Enabled THEN SubSeq(sent, Len(queued_messages) + 1, Len(sent)) ELSE sent

\* the number of messages passed to call_meshtastic in this cycle when the
\* process is in one of its two loops over messages at position idx
SentSoFar ==
    IF pc = "send_queued" THEN idx - 1
    ELSE (IF Enabled THEN Len(queued_messages) ELSE 0)
         + Len(MessagesOfAll(SubSeq(announced, 1, Len(announced) - 1)))
         + (idx - 1)

\* the process is between the pop of the queue's first slot and the append
Draining == pc = "send_queued"

\* the iteration of the loop is complete
CycleDone == pc = "sleep"

FetchFailed == fetched.outcome \in {"request_error", "json_error"}

(***************************************************************************)
(* C2: with rebroadcast enabled, the slot popped in cycle d holds exactly  *)
(* the messages of the alerts put in the queue in the cycles c with        *)
(* d = c + k * REPEAT_NUM_CYCL, k in 1..REPEAT_NUM_MSG, each once, oldest  *)
(* first: a sequence scheduled in cycle c comes out of the queue in those  *)
(* cycles and in no other.                                                 *)
(***************************************************************************)
C2_RebroadcastAtOffsets ==
    Draining => queued_messages = MessagesOfAll(DueIn(cycle))

\* the second rebroadcast of an alert, two cycles after the first
C2_Witness ==
    /\ Draining
    /\ REPEAT_NUM_MSG = 2
    /\ REPEAT_NUM_CYCL = 2
    /\ \E e \in Range(sched_log) : cycle = e[1] + 4
    /\ queued_messages # <<>>
    /\ queued_messages = MessagesOfAll(DueIn(cycle))

(***************************************************************************)
(* C3: a failed request to the feed (network, HTTP status, parse failure)  *)
(* does not end the loop.  The code ends it: on a request error            *)
(* fetch_alerts returns an empty set, which main() cannot unpack into      *)
(* (current_alerts, data), and a parse failure is raised outside the try.  *)
(***************************************************************************)
C3_FetchFailureNotFatal == FetchFailed => pc # "crashed"

(***************************************************************************)
(* C5: at the end of every polling cycle known_alerts is exactly the set   *)
(* of keys fetched in that cycle, whatever it held before.                 *)
(***************************************************************************)
C5_KnownIsFetched == CycleDone => known_alerts = fetched.ids

\* a cycle ends in which a key known before is gone from the feed
C5_Witness ==
    /\ CycleDone
    /\ cycle >= 2
    /\ prev_alerts \ fetched.ids # {}
    /\ fetched.ids # {}
    /\ known_alerts = fetched.ids

(***************************************************************************)
(* C6: in every cycle after the first, the keys announced (message built,  *)
(* split and passed to call_meshtastic at once) are exactly the keys       *)
(* fetched in this cycle that were not fetched in the previous cycle, each *)
(* announced once.                                                         *)
(***************************************************************************)
C6_AnnouncedIffNew ==
    (CycleDone /\ cycle >= 2) =>
        /\ Range(announced) = fetched.ids \ prev_alerts
        /\ Len(announced) = Cardinality(fetched.ids \ prev_alerts)
        /\ SentNew = MessagesOfAll(announced)

\* a key announced two cycles ago, absent in the previous cycle, is announced
\* again, while another key present in both cycles is not
C6_Witness ==
    /\ CycleDone
    /\ cycle >= 3
    /\ \E k \in Keys :
          /\ <<cycle - 2, k>> \in Range(sched_log)
          /\ k \notin prev_alerts
          /\ k \in Range(announced)
          /\ MessagesOf(k) = SentNew
    /\ fetched.ids \cap prev_alerts # {}

(***************************************************************************)
(* C7: in the first polling cycle nothing is passed to call_meshtastic     *)
(* unless the process runs in dry-run mode, in which every alert of the    *)
(* first fetch is announced; an alert whose key is fetched for the first   *)
(* time in a later cycle is announced in that cycle.                       *)
(***************************************************************************)
C7_BootstrapSuppressed ==
    /\ (cycle = 1 /\ ~DRY_RUN) => (sent = <<>> /\ announced = <<>>)
    /\ (CycleDone /\ cycle = 1 /\ DRY_RUN) =>
          (Range(announced) = fetched.ids /\ SentNew = MessagesOfAll(announced))
    /\ (CycleDone /\ cycle >= 2) =>
          /\ fetched.ids \ seen_before \subseteq Range(announced)
          /\ \A i \in 1..Len(announced) :
                \E j \in 1..Len(SentNew) :
                   SubSeq(SentNew, j, j + Len(MessagesOf(announced[i])) - 1)
                      = MessagesOf(announced[i])

\* the second cycle ends: the alert of the first fetch was not sent, the
\* alert that came up in the second one was
C7_Witness ==
    /\ CycleDone
    /\ cycle = 2
    /\ ~DRY_RUN
    /\ prev_alerts # {}
    /\ prev_alerts \subseteq fetched.ids
    /\ fetched.ids \ seen_before # {}
    /\ Range(announced) = fetched.ids \ seen_before
    /\ SentNew = MessagesOfAll(announced)
    /\ sent # <<>>

(***************************************************************************)
(* C8: a failed call_meshtastic does not end the cycle: the process ends   *)
(* only through a failed request to the feed, and at the end of a cycle    *)
(* every queued message and every message of every new alert has been      *)
(* passed to call_meshtastic, in order, whichever calls failed.            *)
(***************************************************************************)
C8_DispatchFailureSkipped ==
    /\ pc = "crashed" => FetchFailed
    /\ pc \in {"send_queued", "send_new"} => Len(sent) = SentSoFar
    /\ CycleDone =>
          /\ sent = (IF Enabled THEN queued_messages ELSE <<>>) \o MessagesOfAll(announced)
          /\ Range(announced) = (IF cycle = 1 /\ ~DRY_RUN THEN {}
                                 ELSE fetched.ids \ prev_alerts)

\* the first call of a cycle failed; a second queued message and the two
\* messages of a new alert were passed to call_meshtastic after it
C8_Witness ==
    /\ CycleDone
    /\ failed_at = 1
    /\ Len(queued_messages) >= 2
    /\ \E i \in 1..Len(announced) : Len(MessagesOf(announced[i])) >= 2
    /\ sent = queued_messages \o MessagesOfAll(announced)


(***************************************************************************)
(* C11: with REPEAT_NUM_MSG <= 0 or REPEAT_NUM_CYCL <= 0 the queue has no  *)
(* slot, and no cycle changes it, takes messages from it or adds messages  *)
(* to it.  The code allocates REPEAT_NUM_CYCL * REPEAT_NUM_MSG slots       *)
(* without looking at the signs: with both numbers negative the product is *)
(* positive and the queue has slots, which no cycle ever touches.          *)
(***************************************************************************)
C11_DisabledIsInert ==
    (~Enabled /\ pc \notin {"startup", "aborted"}) =>
        /\ message_queue = <<>>
        /\ queued_messages = <<>>
        /\ sched_log = <<>>
        /\ pc # "send_queued"


(***************************************************************************)
(* C12: with REPEAT_NUM_MSG > 0 and REPEAT_NUM_CYCL > 0 the queue has      *)
(* exactly REPEAT_NUM_MSG * REPEAT_NUM_CYCL slots when main() has set it   *)
(* up and at the end of every cycle: the pop of a cycle takes the first    *)
(* slot away and the append puts one empty slot at the back.  Every list   *)
(* index a new alert's messages are added at is an index of the queue.     *)
(***************************************************************************)
RingSize == REPEAT_NUM_MSG * REPEAT_NUM_CYCL

C12_RingKeepsItsSize ==
    (Enabled /\ pc \notin {"startup", "aborted"}) =>
        /\ pc \in {"drain", "fetch", "announce", "send_new", "sleep", "crashed"} =>
              Len(message_queue) = RingSize
        /\ pc = "send_queued" => Len(message_queue) = RingSize - 1
        /\ (pc = "fetch" /\ fetched.outcome = "none") =>
              message_queue[RingSize] = <<>>
        /\ \A j \in SlotIndexes : 0 <= j /\ j < RingSize
        /\ pc = "crashed" => FetchFailed

C12_Witness ==
    /\ Enabled
    /\ CycleDone
    /\ cycle >= 3
    /\ RingSize = 6
    /\ Len(message_queue) = 6
    /\ message_queue[6] # <<>>
    /\ message_queue[1] # <<>>


(***************************************************************************)
(* C13: in every cycle the queue is popped exactly once, before the        *)
(* request to the feed and before any message of a new alert is passed to  *)
(* call_meshtastic or added to the queue; every message of the popped slot *)
(* is passed to call_meshtastic before the first message of an alert       *)
(* announced in that cycle.  (With the repetition switched off nothing is  *)
(* popped: see C11.)                                                       *)
(***************************************************************************)
ScheduledNow == SelectSeq(sched_log, LAMBDA e : e[1] = cycle)

C13_DrainBeforeFetch ==
    (Enabled /\ pc \notin {"startup", "aborted"}) =>
        /\ pc = "drain" => advanced = 0
        /\ pc # "drain" => advanced = 1
        /\ pc \in {"drain", "send_queued"} =>
              /\ fetched.outcome = "none"
              /\ announced = <<>>
              /\ ScheduledNow = <<>>
              /\ Len(sent) <= Len(queued_messages) \/ pc = "drain"
              /\ pc = "drain" => sent = <<>>
        /\ (fetched.outcome # "none" \/ announced # <<>> \/ ScheduledNow # <<>>) =>
              /\ Len(sent) >= Len(queued_messages)
              /\ SubSeq(sent, 1, Len(queued_messages)) = queued_messages

C13_Witness ==
    /\ Enabled
    /\ pc = "send_new"
    /\ advanced = 1
    /\ cycle >= 3
    /\ ScheduledNow # <<>>
    /\ Len(queued_messages) >= 2
    /\ Len(sent) > Len(queued_messages)
    /\ SubSeq(sent, 1, Len(queued_messages)) = queued_messages


(***************************************************************************)
(* C14: a word of more than max_bytes bytes is in no returned chunk and is *)
(* never the reason for a chunk of more than max_bytes bytes: the chunks   *)
(* returned are those built from the other pieces of the text alone, and   *)
(* when every other piece fits the space left after the reserved suffix    *)
(* and marker, every chunk is within max_bytes.  The loop is a "for" over  *)
(* the pieces of the text and a skipped word is one "continue": the result *)
(* is computed for every text with such words.                             *)
(***************************************************************************)
Oversized(word) == ByteLen(word) > max_bytes

HasOversized == \E i \in DOMAIN Split(s) : Oversized(Split(s)[i])

NotOversized == SelectSeq(Split(s), LAMBDA w : ~Oversized(w))

C14_OversizedWordDropped ==
    (Segmented /\ HasOversized) =>
        /\ \A i \in DOMAIN OutWords(result) : ~Oversized(OutWords(result)[i])
        /\ result = AddSuffixes(Finalize(
                        Loop(LoopInit, NotOversized, 1, max_bytes, MAX_MESSAGES)))
        /\ (\A i \in DOMAIN NotOversized :
                1 + ByteLen(NotOversized[i])
                    <= max_bytes - suffix_length(MAX_MESSAGES) - EXTRA_SUFFIX)
           => \A i \in DOMAIN result : ByteLen(result[i]) <= max_bytes

C14_Witness ==
    /\ Segmented
    /\ Len(Split(s)) = 4
    /\ Oversized(Split(s)[2])
    /\ ~Oversized(Split(s)[1]) /\ ~Oversized(Split(s)[3]) /\ ~Oversized(Split(s)[4])
    /\ Len(result) = 2
    /\ Len(OutWords(result)) = 3
    /\ \A i \in DOMAIN result : ByteLen(result[i]) <= max_bytes


(***************************************************************************)
(* C15: whenever the segmentation logic runs, chunk i of the N returned    *)
(* chunks (i counted from 1) ends with " i/N", N being the number of       *)
(* chunks returned and not MAX_MESSAGES; also when one chunk is returned   *)
(* and when the last chunk carries the truncation marker.                  *)
(***************************************************************************)
C15_PositionalSuffix ==
    Segmented =>
        \A i \in 1..Len(result) :
            EndsWith(result[i], <<SP>> \o Dec(i) \o <<SLASH>> \o Dec(Len(result)))

C15_Witness ==
    /\ Segmented
    /\ MAX_MESSAGES = 2
    /\ Len(result) = 1
    /\ EndsWith(result[1], Suffix(1, 1))
    /\ ~CarriesMarker(result, 1)
    /\ Len(OutWords(result)) >= 2


(***************************************************************************)
(* C16: the process ends before the loop exactly when it does not run dry  *)
(* and the command that checks the radio fails; when the command succeeds, *)
(* whatever it prints, and when the process runs dry, main() is entered.   *)
(* The code tests the truth value of the command's output: a command that  *)
(* succeeds and prints nothing ends the process too.                       *)
(***************************************************************************)
C16_AbortIffUnreachable ==
    pc # "startup" =>
        /\ pc = "aborted" <=> (~DRY_RUN /\ checked = "error")
        /\ (DRY_RUN \/ checked \in {"stdout", "silent"}) => cycle >= 1


(***************************************************************************)
(* C17: the messages of a popped slot are passed to call_meshtastic in the *)
(* order in which they were added to the slot, and the chunks of one       *)
(* message in the order 1..N of their positional suffixes, when the alert  *)
(* is announced and at every repetition: every slot holds the messages of  *)
(* the alerts due at its cycle, oldest first, each with its chunks in      *)
(* ascending order, and both loops pass their list on from the front.      *)
(***************************************************************************)
\* the chunks of the list are numbered 1..N in this order
Ascending(messages) ==
    Len(messages) > 1 =>
        \A i \in 1..Len(messages) : EndsWith(messages[i], Suffix(i, Len(messages)))

\* the cycle in which slot j of the queue is popped
DueCycle(j) == IF pc = "drain" THEN cycle + j - 1 ELSE cycle + j

C17_OrderKept ==
    pc \notin {"startup", "aborted"} =>
        /\ \A k \in Keys : Ascending(MessagesOf(k))
        /\ \A j \in 1..Len(message_queue) :
              message_queue[j] = MessagesOfAll(DueIn(DueCycle(j)))
        /\ pc = "send_queued" =>
              /\ queued_messages = MessagesOfAll(DueIn(cycle))
              /\ sent = SubSeq(queued_messages, 1, idx - 1)
        /\ pc = "send_new" =>
              /\ new_messages = MessagesOf(id)
              /\ Len(sent) >= idx - 1
              /\ SubSeq(sent, Len(sent) - idx + 2, Len(sent))
                     = SubSeq(new_messages, 1, idx - 1)

C17_Witness ==
    /\ pc = "send_queued"
    /\ idx > Len(queued_messages)
    /\ Len(DueIn(cycle)) >= 2
    /\ DueIn(cycle)[1] # DueIn(cycle)[2]
    /\ Len(MessagesOf(DueIn(cycle)[1])) = 2
    /\ sent = MessagesOfAll(DueIn(cycle))
    /\ failed_at = 1


(***************************************************************************)
(* C18: a message of a new alert is passed to call_meshtastic exactly once *)
(* in the cycle of its announcement, also when that call fails, and every  *)
(* alert announced is added to the queue with all its chunks, in each of   *)
(* its REPEAT_NUM_MSG slots, whichever of the calls failed.                *)
(***************************************************************************)
\* how often the message is in the list
Count(messages, message) ==
    Cardinality({p \in DOMAIN messages : messages[p] = message})

\* the alerts announced in this cycle whose messages have all been sent
AnnouncedFully ==
    IF pc = "send_new" THEN SubSeq(announced, 1, Len(announced) - 1) ELSE announced

C18_FailedNotRetriedStillEnrolled ==
    pc \in {"announce", "send_new", "sleep"} =>
        /\ \A n \in DOMAIN AnnouncedFully :
              \A i \in DOMAIN MessagesOf(announced[n]) :
                  Count(SentNew, MessagesOf(announced[n])[i]) = 1
        /\ Enabled =>
              /\ Len(ScheduledNow) = Len(AnnouncedFully)
              /\ \A n \in DOMAIN AnnouncedFully :
                    ScheduledNow[n] = <<cycle, announced[n]>>
              /\ \A r \in 1..REPEAT_NUM_MSG :
                    EndsWith(message_queue[r * REPEAT_NUM_CYCL],
                             MessagesOfAll(AnnouncedFully))

C18_Witness ==
    /\ CycleDone
    /\ Enabled
    /\ REPEAT_NUM_MSG = 2
    /\ MAX_MESSAGES = 2
    /\ Len(announced) = 2
    /\ failed_at = Len(queued_messages) + 1
    /\ Len(SentNew) = 3
    /\ \A r \in 1..REPEAT_NUM_MSG :
          EndsWith(message_queue[r * REPEAT_NUM_CYCL], MessagesOfAll(announced))


(***************************************************************************)
(* C19: every chunk returned when the segmentation logic runs holds at     *)
(* least one word of the text; no chunk is only a positional suffix, with  *)
(* or without the truncation marker.  The code closes the current chunk    *)
(* whenever the next piece does not fit, also when the chunk has no words  *)
(* yet or only empty pieces: such a chunk is returned as " i/N" or         *)
(* "[...] i/N".                                                            *)
(***************************************************************************)
C19_ChunkHasWord ==
    Segmented => \A i \in 1..Len(result) : ChunkWords(result, i) # <<>>


(***************************************************************************)
(* C20: every message in a slot of the queue, and every message popped     *)
(* from it, was passed to call_meshtastic as a message of a new alert in   *)
(* this or an earlier cycle.  While the first cycle of a process that does *)
(* not run dry lasts, nothing has been passed and the queue is empty; the  *)
(* messages of an alert that was only seen in that cycle are never in the  *)
(* queue and never sent.                                                   *)
(***************************************************************************)
\* the messages in the slots of the queue and in the popped slot
Queued ==
    UNION {Range(message_queue[j]) : j \in DOMAIN message_queue}
        \cup Range(queued_messages)

C20_QueuedWereAnnounced ==
    pc \notin {"startup", "aborted"} =>
        /\ Queued \subseteq dispatched
        /\ Range(sent) \subseteq dispatched
        /\ first => (dispatched = {} /\ Queued = {} /\ sent = <<>>)
        /\ \A k \in Keys :
              Range(MessagesOf(k)) \cap dispatched = {} =>
                  Range(MessagesOf(k)) \cap (Queued \cup Range(sent)) = {}

C20_Witness ==
    /\ ~DRY_RUN
    /\ Enabled
    /\ CycleDone
    /\ cycle >= 3
    /\ 1 \in seen_before
    /\ 1 \in known_alerts
    /\ Range(MessagesOf(1)) \cap dispatched = {}
    /\ Range(MessagesOf(2)) \subseteq dispatched
    /\ Range(MessagesOf(2)) \subseteq Range(sent)
    /\ Queued = Range(MessagesOf(2))
    /\ queued_messages # <<>>

=============================================================================
